---- MODULE Spec2Model ----
(***************************************************************************)
(* texture-packer: src/main.rs.  One run of main(): catalog of source      *)
(* rectangles, the 'pack_images retry loop around pack_rects, allocation   *)
(* of one output image per bin, compositing, writing the sheets, the       *)
(* external encoder (toktx) and the atlas description file.                *)
(*                                                                         *)
(* pack_rects itself lives in the rectangle_pack crate, which is not part  *)
(* of the source tree; it is modelled from section 4.2 of the design text  *)
(* (descending-area order, smallest-leftover fit, guillotine split).       *)
(***************************************************************************)
EXTENDS Integers, Sequences, FiniteSets, TLC

\* ---- bounds of the model ------------------------------------------------
MaxSide == 3
MaxVaried == 3
MaxFull == 11

\* ---- program constant: the bin ceiling of the retry loop ------------------
MaxBins == 32

VARIABLES
    sheet_size,     \* packer_args.sheet_size
    rects,          \* rects_to_place / src_img_bytes: id -> [w, h]
    target_bins,    \* BTreeMap<String, TargetBin>: key -> free sections
    i,              \* the loop counter of main
    attempts,       \* number of calls of pack_rects made so far
    placement,      \* packed_locations of the successful attempt
    output_images,  \* BTreeMap<String, (ImageBuffer, u32)>
    cur,            \* position of the compositing loop in packed_locations
    sheet_files,    \* the atlas{k}.png files on disk: key -> pixels
    toktx_args,     \* the ordered image list handed to toktx
    toktx_status,   \* "none" before the encoder ran, else its outcome
    atlas_file,     \* the .ron description file, and whether it was written
    pc              \* position of main

vars == <<sheet_size, rects, target_bins, i, attempts, placement,
          output_images, cur, sheet_files, toktx_args, toktx_status,
          atlas_file, pc>>

\* ---- bin identifiers: format!("atlas{}", j) and the BTreeMap<String> order --

\* The decimal digits format! prints for j; the common prefix "atlas" is left
\* out, it does not change the order of two keys.
RECURSIVE Digits(_)
Digits(n) ==
    IF n < 10 THEN <<n>> ELSE Append(Digits(n \div 10), n % 10)

\* Ord for String: byte-wise lexicographic, a proper prefix sorts first.
RECURSIVE LexLess(_, _)
LexLess(a, b) ==
    IF a = <<>> THEN b # <<>>
    ELSE IF b = <<>> THEN FALSE
    ELSE IF Head(a) # Head(b) THEN Head(a) < Head(b)
    ELSE LexLess(Tail(a), Tail(b))

\* Position of key in the iteration order of a BTreeMap with these keys.
KeyRank(keys, key) == Cardinality({k \in keys : LexLess(k, key)})

NumBins == Cardinality(DOMAIN target_bins)

\* ---- TargetBin::new(sheet_size, sheet_size, 1) ------------------------------

\* Variant: the bin is created one unit wider than the sheet.
FreshBin_Wide(s) == << [x |-> 0, y |-> 0, w |-> s + 1, h |-> s] >>

\* One free section covering the whole bin.
FreshBin(s) == << [x |-> 0, y |-> 0, w |-> s, h |-> s] >>

\* ---- the packing engine (pack_rects) ----------------------------------------

\* volume_heuristic: width * height * depth, every rectangle has depth 1.
volume_heuristic(r) == r.w * r.h * 1

MaxOf(a, b) == IF a >= b THEN a ELSE b
MinOf(a, b) == IF a <= b THEN a ELSE b

\* Rectangle a is placed before rectangle b: descending area, then descending
\* longer side, then ascending id.
PlacedBefore(rs, a, b) ==
    LET va == volume_heuristic(rs[a])
        vb == volume_heuristic(rs[b])
        ma == MaxOf(rs[a].w, rs[a].h)
        mb == MaxOf(rs[b].w, rs[b].h)
    IN  \/ va > vb
        \/ va = vb /\ ma > mb
        \/ va = vb /\ ma = mb /\ a < b

RECURSIVE SortedOrder(_, _)
SortedOrder(rs, ids) ==
    IF ids = {} THEN <<>>
    ELSE LET first == CHOOSE a \in ids :
                        \A b \in ids \ {a} : PlacedBefore(rs, a, b)
         IN  <<first>> \o SortedOrder(rs, ids \ {first})

\* A free section can contain the rectangle (no rotation).
Fits(f, r) == r.w <= f.w /\ r.h <= f.h

\* Area of the free section left uncovered by the rectangle.
Leftover(f, r) == volume_heuristic(f) - volume_heuristic(r)

\* All <<bin key, section index>> whose section can contain r.
Candidates(bins, r) ==
    { c \in UNION { { <<key, n>> : n \in 1..Len(bins[key]) } : key \in DOMAIN bins } :
        Fits(bins[c[1]][c[2]], r) }

\* Candidate c is preferred to d: smaller leftover, then earlier bin, then
\* earlier section.
Preferred(bins, r, c, d) ==
    LET lc == Leftover(bins[c[1]][c[2]], r)
        ld == Leftover(bins[d[1]][d[2]], r)
    IN  \/ lc < ld
        \/ lc = ld /\ LexLess(c[1], d[1])
        \/ lc = ld /\ c[1] = d[1] /\ c[2] < d[2]

BestFit(bins, r) ==
    LET cands == Candidates(bins, r)
    IN  CHOOSE c \in cands : \A d \in cands \ {c} : Preferred(bins, r, c, d)

SmallestBox(pair) == MinOf(volume_heuristic(pair[1]), volume_heuristic(pair[2]))

\* contains_smallest_box: of two ways to cut, keep the one whose smaller
\* piece is smallest (the other piece is then as large as possible).
contains_smallest_box(optA, optB) == SmallestBox(optA) <= SmallestBox(optB)

\* Variant: the piece below starts at the section's own y, not under the
\* rectangle.
GuillotineSplit_NoOffset(f, r) ==
    LET dw == f.w - r.w
        dh == f.h - r.h
        optA == << [x |-> f.x + r.w, y |-> f.y, w |-> dw, h |-> f.h],
                   [x |-> f.x, y |-> f.y, w |-> r.w, h |-> dh] >>
        optB == << [x |-> f.x + r.w, y |-> f.y, w |-> dw, h |-> r.h],
                   [x |-> f.x, y |-> f.y, w |-> f.w, h |-> dh] >>
        chosen == IF contains_smallest_box(optA, optB) THEN optA ELSE optB
    IN  SelectSeq(chosen, LAMBDA s : s.w > 0 /\ s.h > 0)

\* The rectangle goes to the section's origin; the rest of the section is cut
\* into a piece to the right and a piece below, empty pieces are dropped.
GuillotineSplit(f, r) ==
    LET dw == f.w - r.w
        dh == f.h - r.h
        optA == << [x |-> f.x + r.w, y |-> f.y, w |-> dw, h |-> f.h],
                   [x |-> f.x, y |-> f.y + r.h, w |-> r.w, h |-> dh] >>
        optB == << [x |-> f.x + r.w, y |-> f.y, w |-> dw, h |-> r.h],
                   [x |-> f.x, y |-> f.y + r.h, w |-> f.w, h |-> dh] >>
        chosen == IF contains_smallest_box(optA, optB) THEN optA ELSE optB
    IN  SelectSeq(chosen, LAMBDA s : s.w > 0 /\ s.h > 0)

RemoveAt(s, n) == SubSeq(s, 1, n - 1) \o SubSeq(s, n + 1, Len(s))

\* Place the rectangles order[k..] one by one; the first one that fits no
\* section of any bin fails the whole attempt.
RECURSIVE PackFrom(_, _, _, _, _)
PackFrom(rs, order, k, bins, locs) ==
    IF k > Len(order) THEN [ok |-> TRUE, bins |-> bins, locs |-> locs]
    ELSE LET id == order[k]
             r == rs[id]
         IN  IF Candidates(bins, r) = {}
             THEN [ok |-> FALSE, bins |-> bins, locs |-> locs]
             ELSE LET c == BestFit(bins, r)
                      f == bins[c[1]][c[2]]
                      loc == [bin |-> c[1], x |-> f.x, y |-> f.y,
                              w |-> r.w, h |-> r.h]
                      rest == RemoveAt(bins[c[1]], c[2]) \o GuillotineSplit(f, r)
                  IN  PackFrom(rs, order, k + 1,
                               [bins EXCEPT ![c[1]] = rest],
                               (id :> loc) @@ locs)

\* pack_rects(&rects_to_place, &mut target_bins, &volume_heuristic,
\*            &contains_smallest_box): ok, the bins as it leaves them, and
\* the packed locations.
PackRects(rs, bins) ==
    PackFrom(rs, SortedOrder(rs, DOMAIN rs), 1, bins, <<>>)

\* ---- main: the retry loop ---------------------------------------------------

\* Variant: the new bin count skips one (0..=i+1).
Rebuild_SkipOne(bins, n, s) ==
    [ key \in { Digits(j) : j \in 0..(n + 1) } |-> FreshBin(s) ]

\* Variant: exclusive range (0..i), the bin set does not grow in step.
Rebuild_Exclusive(bins, n, s) ==
    [ key \in { Digits(j) : j \in 0..(n - 1) } |-> FreshBin(s) ]

\* Variant: no clear(), a bin that exists keeps its used-up sections.
Rebuild_KeepOld(bins, n, s) ==
    [ key \in { Digits(j) : j \in 0..n } |->
        IF key \in DOMAIN bins THEN bins[key] ELSE FreshBin(s) ]

\* target_bins.clear(); for j in 0..=i { target_bins.insert(atlas{j}, new) }
\* `bins` is the map as the failed attempt left it; clear() drops all of it.
Rebuild(bins, n, s) ==
    [ key \in { Digits(j) : j \in 0..n } |-> FreshBin(s) ]

\* Variant: gives up on reaching the ceiling (>=).
CeilingExceeded_AtCeiling(bins) == Cardinality(DOMAIN bins) >= MaxBins

\* if target_bins.len() > 32 { panic!(...) }
CeilingExceeded(bins) == Cardinality(DOMAIN bins) > MaxBins

\* ---- main: output images and compositing ------------------------------------

\* The pixel (i, j) of the decoded source image id.
SrcPixel(id, px, py) == <<id, px, py>>

\* image::ImageBuffer::new: every pixel zero.
BlankPixel == <<0, 0, 0>>
BlankImage(s) == [ p \in (0..(s - 1)) \X (0..(s - 1)) |-> BlankPixel ]

\* Variant: the index is incremented before it is stored.
OutputImages_FromOne(bins, s) ==
    [ key \in DOMAIN bins |->
        [img |-> BlankImage(s), idx |-> KeyRank(DOMAIN bins, key) + 1] ]

\* target_bins.iter().map(|..| (id, (ImageBuffer::new(..), idx++))).collect()
OutputImages(bins, s) ==
    [ key \in DOMAIN bins |->
        [img |-> BlankImage(s), idx |-> KeyRank(DOMAIN bins, key)] ]

\* Some put_pixel(i + x, j + y) of the copy falls outside the s x s buffer.
OutOfBounds(r, loc, s) ==
    \E px \in 0..(r.w - 1), py \in 0..(r.h - 1) :
        px + loc.x >= s \/ py + loc.y >= s

\* Variant: the source pixel is read transposed, src(j, i).
Blit_Transposed(img, id, r, loc) ==
    [ p \in DOMAIN img |->
        IF /\ loc.x <= p[1] /\ p[1] < loc.x + r.w
           /\ loc.y <= p[2] /\ p[2] < loc.y + r.h
        THEN SrcPixel(id, p[2] - loc.y, p[1] - loc.x)
        ELSE img[p] ]

\* for j in 0..h { for i in 0..w { img.put_pixel(i + x, j + y, src(i, j)) } }
Blit(img, id, r, loc) ==
    [ p \in DOMAIN img |->
        IF /\ loc.x <= p[1] /\ p[1] < loc.x + r.w
           /\ loc.y <= p[2] /\ p[2] < loc.y + r.h
        THEN SrcPixel(id, p[1] - loc.x, p[2] - loc.y)
        ELSE img[p] ]

\* ---- main: sheets, encoder, description -------------------------------------

\* output_images.iter().map(save; (file_name, idx)).collect(), then
\* sort_by_key(idx): the file of the image with index n is at position n.
AtlasSheetImages(oi) ==
    [ n \in 1..Cardinality(DOMAIN oi) |->
        CHOOSE key \in DOMAIN oi : oi[key].idx = n - 1 ]

\* The files written when the first m saves (in map order) succeeded.
SavedPrefix(oi, m) ==
    [ key \in { k \in DOMAIN oi : KeyRank(DOMAIN oi, k) < m } |-> oi[key].img ]

\* Variant: the early return after a non-zero exit status is missing.
AfterToktx_NoReturn(outcome) ==
    CASE outcome = "success" -> "describe"
      [] outcome = "failure" -> "describe"
      [] OTHER -> "panic_toktx"

\* Where main goes after toktx: a spawn error panics in expect(), a non-zero
\* exit status returns, success goes on to the description file.
AfterToktx(outcome) ==
    CASE outcome = "success" -> "describe"
      [] outcome = "failure" -> "exit"
      [] OTHER -> "panic_toktx"

\* Variant: only regions of the first image in the map are emitted.
RECURSIVE Frames_FirstBinOnly(_, _, _)
Frames_FirstBinOnly(locs, oi, k) ==
    IF k > Cardinality(DOMAIN locs) THEN <<>>
    ELSE LET loc == locs[k]
             here == IF loc.bin \in DOMAIN oi /\ oi[loc.bin].idx = 0
                     THEN << [layer |-> oi[loc.bin].idx, x |-> loc.x, y |-> loc.y,
                              width |-> loc.w, height |-> loc.h] >>
                     ELSE <<>>
         IN  here \o Frames_FirstBinOnly(locs, oi, k + 1)

\* placement.packed_locations().iter().filter_map(|(_, loc)|
\*     output_images.get(&loc.0).map(|(_, layer)| TextureRegion {..}))
RECURSIVE Frames(_, _, _)
Frames(locs, oi, k) ==
    IF k > Cardinality(DOMAIN locs) THEN <<>>
    ELSE LET loc == locs[k]
             here == IF loc.bin \in DOMAIN oi
                     THEN << [layer |-> oi[loc.bin].idx, x |-> loc.x, y |-> loc.y,
                              width |-> loc.w, height |-> loc.h] >>
                     ELSE <<>>
         IN  here \o Frames(locs, oi, k + 1)

\* No description file on disk.
NoAtlasFile == [written |-> FALSE, frames |-> <<>>, size |-> <<0, 0>>]

\* ---- initial states ---------------------------------------------------------

\* Sizes of images that fit a sheet, and of images too wide or too high for it.
FittingRects(s) == [w : 1..s, h : 1..s]
OversizedRects(s) == [w : 1..(s + 1), h : 1..(s + 1)] \ FittingRects(s)

SeqsUpTo(S, n) == UNION { [1..m -> S] : m \in 0..n }

FullRects(s, n) == [ k \in 1..n |-> [w |-> s, h |-> s] ]

\* The ids are the paths of the images and only matter to the engine when two
\* rectangles tie in its sort order, so the images are listed by ascending
\* (width, height) or in the reverse of that order.
SizeLeq(a, b) == a.w < b.w \/ (a.w = b.w /\ a.h <= b.h)

Ascending(v) == \A k \in 1..(Len(v) - 1) : SizeLeq(v[k], v[k + 1])

Reversed(v) == [ k \in 1..Len(v) |-> v[Len(v) + 1 - k] ]

VariedInputs(s) ==
    LET asc == { v \in SeqsUpTo(FittingRects(s), MaxVaried) : Ascending(v) }
    IN  asc \cup { Reversed(v) : v \in asc }

\* A few fitting images of arbitrary sizes; or at most one of them followed by
\* many images that each fill a whole sheet, or by one oversized image.
Inputs(s) ==
    VariedInputs(s)
    \cup { v \o FullRects(s, n) :
             v \in SeqsUpTo(FittingRects(s), 1), n \in 1..MaxFull }
    \cup { v \o <<o>> :
             v \in SeqsUpTo(FittingRects(s), 1), o \in OversizedRects(s) }

Init ==
    /\ sheet_size \in 1..MaxSide
    /\ rects \in Inputs(sheet_size)
    /\ target_bins = [ key \in { Digits(0) } |-> FreshBin(sheet_size) ]
    /\ i = 1
    /\ attempts = 0
    /\ placement = <<>>
    /\ output_images = <<>>
    /\ cur = 0
    /\ sheet_files = <<>>
    /\ toktx_args = <<>>
    /\ toktx_status = "none"
    /\ atlas_file = NoAtlasFile
    /\ pc = "pack"

\* ---- actions ----------------------------------------------------------------

\* pack_rects returned Ok: break 'pack_images rect_placements.
PackSucceeds ==
    /\ pc = "pack"
    /\ LET res == PackRects(rects, target_bins)
       IN  /\ res.ok
           /\ placement' = res.locs
           /\ target_bins' = res.bins
    /\ attempts' = attempts + 1
    /\ pc' = "alloc"
    /\ UNCHANGED <<sheet_size, rects, i, output_images, cur, sheet_files,
                   toktx_args, toktx_status, atlas_file>>

\* pack_rects returned Err: rebuild the bins with one more, give up past 32.
PackFails ==
    /\ pc = "pack"
    /\ LET res == PackRects(rects, target_bins)
       IN  /\ ~res.ok
           /\ target_bins' = Rebuild(res.bins, i, sheet_size)
    /\ i' = i + 1
    /\ attempts' = attempts + 1
    /\ pc' = IF CeilingExceeded(target_bins') THEN "panic_giveup" ELSE "pack"
    /\ UNCHANGED <<sheet_size, rects, placement, output_images, cur,
                   sheet_files, toktx_args, toktx_status, atlas_file>>

\* let mut output_images = target_bins.iter().map(..).collect();
AllocOutputImages ==
    /\ pc = "alloc"
    /\ output_images' = OutputImages(target_bins, sheet_size)
    /\ cur' = 1
    /\ pc' = "composite"
    /\ UNCHANGED <<sheet_size, rects, target_bins, i, attempts, placement,
                   sheet_files, toktx_args, toktx_status, atlas_file>>

\* One iteration of `for (bin_id, loc) in placement.packed_locations()`.
\* put_pixel panics on a coordinate outside the buffer.
CompositeOne ==
    /\ pc = "composite"
    /\ cur <= Cardinality(DOMAIN placement)
    /\ LET loc == placement[cur]
           r == rects[cur]
       IN  IF loc.bin \notin DOMAIN output_images
           THEN /\ output_images' = output_images
                /\ cur' = cur + 1
                /\ pc' = pc
           ELSE IF OutOfBounds(r, loc, sheet_size)
           THEN /\ output_images' = output_images
                /\ cur' = cur
                /\ pc' = "panic_put_pixel"
           ELSE /\ output_images' =
                      [output_images EXCEPT ![loc.bin].img = Blit(@, cur, r, loc)]
                /\ cur' = cur + 1
                /\ pc' = pc
    /\ UNCHANGED <<sheet_size, rects, target_bins, i, attempts, placement,
                   sheet_files, toktx_args, toktx_status, atlas_file>>

\* The compositing loop is over.
CompositeDone ==
    /\ pc = "composite"
    /\ cur > Cardinality(DOMAIN placement)
    /\ pc' = "save"
    /\ UNCHANGED <<sheet_size, rects, target_bins, i, attempts, placement,
                   output_images, cur, sheet_files, toktx_args, toktx_status,
                   atlas_file>>

\* save_with_format for every output image; expect() panics on the first
\* failing save, the files saved before it stay.
SaveSheets ==
    /\ pc = "save"
    /\ \E m \in 0..Cardinality(DOMAIN output_images) :
          /\ sheet_files' = SavedPrefix(output_images, m)
          /\ pc' = IF m = Cardinality(DOMAIN output_images)
                   THEN "toktx" ELSE "panic_save"
    /\ UNCHANGED <<sheet_size, rects, target_bins, i, attempts, placement,
                   output_images, cur, toktx_args, toktx_status, atlas_file>>

\* Command::new("toktx")...output(): the external encoder.
RunToktx ==
    /\ pc = "toktx"
    /\ \E outcome \in {"success", "failure", "spawn_error"} :
          /\ toktx_status' = outcome
          /\ pc' = AfterToktx(outcome)
    /\ toktx_args' = AtlasSheetImages(output_images)
    /\ UNCHANGED <<sheet_size, rects, target_bins, i, attempts, placement,
                   output_images, cur, sheet_files, atlas_file>>

\* Build TextureAtlas and write it; File::create / write_all may fail.
WriteDescription ==
    /\ pc = "describe"
    /\ \E ok \in BOOLEAN :
          IF ok
          THEN /\ atlas_file' = [written |-> TRUE,
                                 frames |-> Frames(placement, output_images, 1),
                                 size |-> <<sheet_size, sheet_size>>]
               /\ pc' = "done"
          ELSE /\ atlas_file' = atlas_file
               /\ pc' = "panic_describe"
    /\ UNCHANGED <<sheet_size, rects, target_bins, i, attempts, placement,
                   output_images, cur, sheet_files, toktx_args, toktx_status>>

Next ==
    \/ PackSucceeds
    \/ PackFails
    \/ AllocOutputImages
    \/ CompositeOne
    \/ CompositeDone
    \/ SaveSheets
    \/ RunToktx
    \/ WriteDescription

Spec == Init /\ [][Next]_vars

\* ---- properties -------------------------------------------------------------

\* Some attempt of the retry loop succeeded: main is past 'pack_images.
Packed == pc \notin {"pack", "panic_giveup"}

\* The compositing loop has processed every placement.
Composited ==
    pc \in {"save", "toktx", "describe", "done", "exit",
            "panic_save", "panic_toktx", "panic_describe"}

\* The rectangles [x, x+w) x [y, y+h) of two placements do not intersect.
Disjoint(a, b) ==
    \/ a.x + a.w <= b.x
    \/ b.x + b.w <= a.x
    \/ a.y + a.h <= b.y
    \/ b.y + b.h <= a.y

\* C1 Non-overlap: after a successful packing, any two distinct placements
\* assigned to the same bin have disjoint rectangles.
C1_NonOverlap ==
    Packed =>
        \A a \in DOMAIN placement, b \in DOMAIN placement :
            (a # b /\ placement[a].bin = placement[b].bin)
                => Disjoint(placement[a], placement[b])

C1_Witness ==
    /\ Packed
    /\ \E a \in DOMAIN placement, b \in DOMAIN placement :
          /\ a # b
          /\ placement[a].bin = placement[b].bin
          /\ placement[a].x > 0
          /\ placement[b].y > 0

\* C2 Bounds: every placement of a successful packing lies inside the sheet
\* (x + width <= sheet_size, y + height <= sheet_size), so no put_pixel of the
\* compositing loop falls outside the buffer.
C2_Bounds ==
    /\ pc # "panic_put_pixel"
    /\ Packed =>
         \A a \in DOMAIN placement :
             /\ placement[a].x + placement[a].w <= sheet_size
             /\ placement[a].y + placement[a].h <= sheet_size
             /\ ~OutOfBounds(rects[a], placement[a], sheet_size)

C2_Witness ==
    /\ Composited
    /\ \E a \in DOMAIN placement :
          /\ placement[a].x > 0
          /\ placement[a].x + placement[a].w = sheet_size

\* C3 Completeness: after a successful packing every catalogued rectangle has
\* exactly one placement, and the description file holds exactly one frame per
\* rectangle, with that rectangle's size and position.
C3_Completeness ==
    /\ Packed =>
         /\ DOMAIN placement = DOMAIN rects
         /\ \A a \in DOMAIN rects :
               placement[a].w = rects[a].w /\ placement[a].h = rects[a].h
    /\ atlas_file.written =>
         /\ Len(atlas_file.frames) = Len(rects)
         /\ \A a \in DOMAIN rects :
               /\ atlas_file.frames[a].width = rects[a].w
               /\ atlas_file.frames[a].height = rects[a].h
               /\ atlas_file.frames[a].x = placement[a].x
               /\ atlas_file.frames[a].y = placement[a].y

C3_Witness ==
    /\ pc = "done"
    /\ atlas_file.written
    /\ Len(rects) >= 2
    /\ NumBins >= 2

\* n fresh bins atlas0 .. atlas{n-1}.
FreshBins(n, s) ==
    [ key \in { Digits(j) : j \in 0..(n - 1) } |->
        << [x |-> 0, y |-> 0, w |-> s, h |-> s] >> ]

\* Some placement of rs[k..] into at most n bins of side s exists that is
\* within bounds and does not overlap `placed`.  A rectangle only opens the
\* lowest unused bin (the bins are interchangeable).
RECURSIVE CanPlaceAll(_, _, _, _, _)
CanPlaceAll(rs, k, placed, n, s) ==
    IF k > Len(rs) THEN TRUE
    ELSE LET used == Cardinality({ q.bin : q \in placed })
         IN  \E b \in 1..MinOf(n, used + 1) :
             \E x \in 0..(s - rs[k].w), y \in 0..(s - rs[k].h) :
                LET loc == [bin |-> b, x |-> x, y |-> y,
                            w |-> rs[k].w, h |-> rs[k].h]
                IN  /\ \A q \in placed : q.bin # b \/ Disjoint(q, loc)
                    /\ CanPlaceAll(rs, k + 1, placed \cup {loc}, n, s)

ValidPlacementExists(rs, n, s) == CanPlaceAll(rs, 1, {}, n, s)

\* C4 as claimed: the final bin count is the smallest N >= 1 for which some
\* valid (in bounds, non-overlapping) placement of all rectangles exists.
C4_MinimalOverAllPlacements ==
    pc = "alloc" =>
        /\ ValidPlacementExists(rects, NumBins, sheet_size)
        /\ NumBins > 1 => ~ValidPlacementExists(rects, NumBins - 1, sheet_size)

\* C4 amended: the final bin count N (1 <= N <= 32) is the smallest count for
\* which the engine's own attempt over that many fresh bins succeeds.
C4_MinimalOverAttempts ==
    pc = "alloc" =>
        /\ 1 <= NumBins /\ NumBins <= MaxBins
        /\ PackRects(rects, FreshBins(NumBins, sheet_size)).ok
        /\ \A k \in 1..(NumBins - 1) :
              ~PackRects(rects, FreshBins(k, sheet_size)).ok

C4_Witness ==
    /\ pc = "alloc"
    /\ NumBins >= 2
    /\ ValidPlacementExists(rects, NumBins - 1, sheet_size)

\* C5 Capacity ceiling: the loop never makes more than 32 attempts, gives up
\* only after exactly 32 failed attempts, and no attempt is pending once 32
\* have been made.
C5_CapacityCeiling ==
    /\ attempts <= MaxBins
    /\ pc = "panic_giveup" => attempts = MaxBins
    /\ pc = "pack" => attempts < MaxBins

C5_Witness == pc = "panic_giveup" /\ attempts = MaxBins

HasOversized ==
    \E a \in DOMAIN rects : rects[a].w > sheet_size \/ rects[a].h > sheet_size

C7_PixelFidelity ==
    Composited =>
        \A a \in DOMAIN placement :
            \A px \in 0..(rects[a].w - 1), py \in 0..(rects[a].h - 1) :
                LET loc == placement[a]
                    p == <<loc.x + px, loc.y + py>>
                IN  /\ loc.bin \in DOMAIN output_images
                    /\ p \in DOMAIN output_images[loc.bin].img
                    /\ output_images[loc.bin].img[p] = SrcPixel(a, px, py)

C7_Witness ==
    /\ Composited
    /\ \E a \in DOMAIN placement, b \in DOMAIN placement :
          /\ a < b
          /\ placement[a].bin = placement[b].bin
          /\ rects[a].w # rects[a].h
          /\ placement[b].x > 0

\* C8 Encoder failure ordering: the description file is written only after
\* toktx exited successfully; when toktx exits non-zero the run ends at once,
\* the description file stays unwritten, and from the moment the encoder has
\* run the sheet files are never touched again.
C8_EncoderOrdering ==
    [][ /\ atlas_file' # atlas_file => toktx_status = "success"
        /\ toktx_status' = "failure" =>
              (~atlas_file'.written /\ sheet_files' = sheet_files /\ pc' = "exit")
        /\ toktx_status # "none" => sheet_files' = sheet_files
        /\ pc # "exit" ]_vars

C8_Witness ==
    /\ pc = "exit"
    /\ toktx_status = "failure"
    /\ ~atlas_file.written
    /\ Cardinality(DOMAIN sheet_files) >= 2

\* C9 Bin growth by one: the attempt made after k failed ones runs over
\* exactly k + 1 bins, atlas0 .. atlas{k}, each one a single free section
\* covering the whole sheet.
C9_GrowthByOne ==
    pc = "pack" =>
        /\ NumBins = attempts + 1
        /\ DOMAIN target_bins = { Digits(j) : j \in 0..attempts }
        /\ \A key \in DOMAIN target_bins :
              target_bins[key] =
                  << [x |-> 0, y |-> 0, w |-> sheet_size, h |-> sheet_size] >>

C9_Witness == pc = "pack" /\ attempts >= 2 /\ ~HasOversized

\* The layer index recorded for the bin created with ordinal k.
LayerOf(k) == output_images[Digits(k)].idx

Allocated == Packed /\ pc # "alloc"

\* C10 as claimed: for every final bin count, the bin created with ordinal k
\* gets layer k.
C10_LayerIsOrdinal ==
    Allocated => \A k \in 0..(NumBins - 1) : LayerOf(k) = k

\* C10 amended: the layer of atlas{k} is k for final bin counts up to 10; in
\* general it is the position of the identifier in lexicographic order.  Every
\* frame records the layer of its bin, and the bin's file is at that position
\* of the list handed to the encoder.
C10_LayerIsKeyOrder ==
    Allocated =>
        /\ DOMAIN output_images = { Digits(k) : k \in 0..(NumBins - 1) }
        /\ NumBins <= 10 => \A k \in 0..(NumBins - 1) : LayerOf(k) = k
        /\ { LayerOf(k) : k \in 0..(NumBins - 1) } = 0..(NumBins - 1)
        /\ \A k1 \in 0..(NumBins - 1), k2 \in 0..(NumBins - 1) :
              LexLess(Digits(k1), Digits(k2)) <=> LayerOf(k1) < LayerOf(k2)
        /\ toktx_status # "none" =>
              /\ Len(toktx_args) = NumBins
              /\ \A k \in 0..(NumBins - 1) :
                    toktx_args[LayerOf(k) + 1] = Digits(k)
        /\ atlas_file.written =>
              \A a \in DOMAIN placement :
                  /\ a \in DOMAIN atlas_file.frames
                  /\ atlas_file.frames[a].layer =
                        output_images[placement[a].bin].idx

C10_Witness ==
    /\ pc = "done"
    /\ NumBins > 10
    /\ LayerOf(10) = 2
    /\ \E a \in DOMAIN placement : atlas_file.frames[a].layer = 2

====
